---- MODULE Spec2Model ----
(***************************************************************************)
(* Model of warp's filter combinator engine (src/filter/mod.rs).           *)
(*                                                                         *)
(* A pipeline is a tree of combinator nodes built by the constructors of   *)
(* the Filter trait (and, or, map, and_then, or_else, recover, unify,      *)
(* map_err) over FilterFn leaves.  One request is evaluated by calling     *)
(* filter() on the root, which yields a future that is then polled; leaf   *)
(* and callback computations complete asynchronously.                      *)
(***************************************************************************)
EXTENDS Integers, Sequences, FiniteSets, TLC

\* ------------------------------------------------------------------ bounds
MaxArity == 2      \* leaves extract tuples of arity 0..MaxArity
PathLen == 2       \* the request path has segments 1..PathLen
NumFun == 2        \* distinct callback functions handed to the combinators

\* ------------------------------------------------------------------- terms
\* Extracted elements and failure values are terms of one shape, so that
\* any two of them can be compared.
T(tag, n, sub) == [tag |-> tag, n |-> n, sub |-> sub]

NoTerm == T("None", 0, <<>>)

\* Either::Left / Either::Right carrying an extracted tuple
Left(t) == T("Left", 0, t)
Right(t) == T("Right", 0, t)

\* the value a user function f returns for the arguments args
App(f, args) == T("App", f, args)

\* outcomes of a future: Ok(extracted tuple) or Err(failure)
Ok(t) == [ok |-> TRUE, val |-> t, err |-> NoTerm]
Err(e) == [ok |-> FALSE, val |-> <<>>, err |-> e]
NoOutcome == [ok |-> FALSE, val |-> <<>>, err |-> NoTerm]

\* ------------------------------------------------------------ routing state
Path == [i \in 1..PathLen |-> i]

Route0 == [idx |-> 0]

\* ------------------------------------------------------- functions (closures)
\* A closure handed to filter_fn or to a combinator.  As a leaf function
\* (Fn(&mut Route) -> U) it looks at the segment under the path cursor:
\*   want = 0 accepts anything, want = s accepts only segment s;
\*   adv      it moves the cursor on, whether or not it accepts;
\*   arity    the arity of the tuple it extracts;
\*   ekind    the kind of failure it produces when it does not accept;
\*   imm      its computation is complete as soon as it is returned;
\*   then     what is mapped over its computation: "tup_one" for the closure
\*            filter_fn_one builds around a function returning one item.
\* As a callback of and_then / or_else / recover, ok says whether the
\* computation it returns succeeds; imm and ekind are as above.
Fn(id, want, adv, arity, ekind, imm, ok) ==
    [id |-> id, want |-> want, adv |-> adv, arity |-> arity,
     ekind |-> ekind, imm |-> imm, ok |-> ok, then |-> "none"]

NoFn == Fn(0, 0, FALSE, 0, "NoMatch", TRUE, TRUE)

\* ------------------------------------------------------------ constructors
\* A pipeline node: its kind, its closure (NoFn when it has none) and its
\* inner filters, sub[1] being `first` / `filter` and sub[2] `second`.
Node(kind, cb, sub) == [kind |-> kind, cb |-> cb, sub |-> sub]

\* filter_fn: FilterFn { func }
filter_fn(func) == Node("FilterFn", func, <<>>)

\* tup_one: (item,)
tup_one(item) == <<item>>

\* filter_fn_one: filter_fn(move |route| func(route).into_future().map(tup_one))
filter_fn_one(func) == filter_fn([func EXCEPT !.then = "tup_one"])

\* slip: the closure is attached as a Map callback
map_err_as_map(self, fun) == Node("Map", fun, <<self>>)

\* FilterBase::map_err: MapErr { filter: self, callback: fun }
map_err(self, fun) == Node("MapErr", fun, <<self>>)

\* slip: the operands are stored the wrong way round
and_swapped(self, other) == Node("And", NoFn, <<other, self>>)

\* Filter::and: And { first: self, second: other }
and(self, other) == Node("And", NoFn, <<self, other>>)

\* slip: the operands are stored the wrong way round
or_swapped(self, other) == Node("Or", NoFn, <<other, self>>)

\* slip: self is stored as both alternatives
or_self_twice(self, other) == Node("Or", NoFn, <<self, self>>)

\* Filter::or: Or { first: self, second: other }
or(self, other) == Node("Or", NoFn, <<self, other>>)

\* slip: map builds the node of and_then
map_as_and_then(self, fun) == Node("AndThen", fun, <<self>>)

\* Filter::map: Map { filter: self, callback: fun }
map(self, fun) == Node("Map", fun, <<self>>)

\* slip: and_then builds the node of map
and_then_as_map(self, fun) == Node("Map", fun, <<self>>)

\* Filter::and_then: AndThen { filter: self, callback: fun }
and_then(self, fun) == Node("AndThen", fun, <<self>>)

\* slip: or_else builds the node of recover
or_else_as_recover(self, fun) == Node("Recover", fun, <<self>>)

\* Filter::or_else: OrElse { filter: self, callback: fun }
or_else(self, fun) == Node("OrElse", fun, <<self>>)

\* slip: recover builds the node of and_then
recover_as_and_then(self, fun) == Node("AndThen", fun, <<self>>)

\* Filter::recover: Recover { filter: self, callback: fun }
recover(self, fun) == Node("Recover", fun, <<self>>)

\* slip: unify hands back the filter it was given
unify_noop(self) == self

\* Filter::unify: Unify { filter: self }
unify(self) == Node("Unify", NoFn, <<self>>)

\* Wrap::wrap of a wrapper that works before and after the inner filter
wrap(wrapper, filter) == Node("Wrapped", wrapper, <<filter>>)

\* slip: the wrapper is dropped and the filter handed back
with_bare(self, wrapper) == self

\* Filter::with: wrapper.wrap(self)
with(self, wrapper) == wrap(wrapper, self)

\* slip: the filter is handed back unboxed
boxed_bare(self) == self

\* Filter::boxed: BoxedFilter::new(self)
boxed(self) == Node("Boxed", NoFn, <<self>>)

\* ------------------------------------------------------- extraction algebra
HNil == T("HNil", 0, <<>>)
HCons(head, tail) == T("HCons", 0, <<head, tail>>)

\* Tuple::hlist: (a, b, ..) as a cons list
RECURSIVE hlist(_)
hlist(t) == IF t = <<>> THEN HNil ELSE HCons(Head(t), hlist(Tail(t)))

\* HList::flatten: the cons list back as a tuple
RECURSIVE flatten(_)
flatten(h) == IF h.tag = "HNil" THEN <<>> ELSE <<h.sub[1]>> \o flatten(h.sub[2])

\* Combine::combine on cons lists: the unit list contributes nothing
RECURSIVE combine(_, _)
combine(h1, h2) ==
    IF h1.tag = "HNil" THEN h2 ELSE HCons(h1.sub[1], combine(h1.sub[2], h2))

\* the extracted tuple of And: ex1.hlist().combine(ex2.hlist()).flatten()
Combined(ex1, ex2) == flatten(combine(hlist(ex1), hlist(ex2)))

\* ------------------------------------------------------- failure algebra
\* The unified failure type is the canonical rejection; converting a
\* failure that is already canonical changes nothing.
Unified(e) == IF e.tag = "Rejection" THEN e ELSE T("Rejection", 1, <<e>>)

\* Rejection: From<Self::Error>, the conversion at the boxing boundary
Rejection_from(e) == Unified(e)

\* the failure a rejection surfaces: "NoMatch" or "Invalid" at the bottom
RECURSIVE Surfaced(_)
Surfaced(e) == IF e.tag = "Rejection" THEN Surfaced(e.sub[e.n]) ELSE e

Specificity(e) == IF Surfaced(e).tag = "Invalid" THEN 1 ELSE 0

\* CombineRejection::combine of Or: both attempts are kept, and the more
\* specific one is surfaced (the second attempt's on a tie)
CombinedRejection(e1, e2) ==
    T("Rejection", IF Specificity(e1) > Specificity(e2) THEN 1 ELSE 2,
      <<Unified(e1), Unified(e2)>>)

\* ------------------------------------------------------------ leaf functions
Accepts(func, route) ==
    \/ func.want = 0
    \/ route.idx < PathLen /\ Path[route.idx + 1] = func.want

\* what the closure of a leaf does to the route it is lent
FuncRoute(func, route) ==
    IF func.adv /\ route.idx < PathLen THEN [route EXCEPT !.idx = @ + 1] ELSE route

\* the outcome of the computation the closure returns
FuncOutcome(func, route) ==
    IF ~Accepts(func, route)
    THEN Err(T(func.ekind, 100 * func.id + 10 * route.idx, <<>>))
    ELSE IF func.then = "tup_one"
    THEN Ok(tup_one(T("V", 100 * func.id + 10 * route.idx + 1, <<>>)))
    ELSE Ok([k \in 1..func.arity |-> T("V", 100 * func.id + 10 * route.idx + k, <<>>)])

\* the computation a callback of and_then / or_else / recover returns for
\* args: a tuple of `arity` components of its result, or its own failure
CallbackOutcome(cb, args, arity) ==
    IF cb.ok
    THEN Ok([k \in 1..arity |-> T("Item", k, <<App(cb.id, args)>>)])
    ELSE Err(T(cb.ekind, 100 * cb.id, args))

\* ------------------------------------------------------------ static types
\* the arity of FilterBase::Extract
RECURSIVE Arity(_)
Arity(n) ==
    CASE n.kind = "FilterFn" -> n.cb.arity
      [] n.kind = "And" -> Arity(n.sub[1]) + Arity(n.sub[2])
      [] n.kind = "OrElse" -> Arity(n.sub[1])
      [] n.kind = "MapErr" -> Arity(n.sub[1])
      [] n.kind = "Wrapped" -> Arity(n.sub[1])
      [] n.kind = "Boxed" -> Arity(n.sub[1])
      [] n.kind = "Unify" -> Arity(n.sub[1].sub[1])
      [] OTHER -> 1

\* ------------------------------------------------------- evaluation state
\* Nodes of the pipeline are addressed as in a heap: the root is 1, the
\* inner filters of node a are 2a (first / filter) and 2a+1 (second).
Addrs == 1..9

Req == {1, 2}

RECURSIVE NodeAt(_, _)
NodeAt(root, a) ==
    IF a = 1 THEN root ELSE NodeAt(root, a \div 2).sub[(a % 2) + 1]

RECURSIVE HasNode(_, _)
HasNode(root, a) ==
    \/ a = 1
    \/ HasNode(root, a \div 2) /\ (a % 2) + 1 <= Len(NodeAt(root, a \div 2).sub)

\* The future of one node within one invocation:
\*   st     Idle (filter() not called), First (waiting on first / filter),
\*          Second (waiting on second), Callback (waiting on the computation
\*          the callback returned), Running (a leaf's own computation), Done;
\*   io     the leaf's or callback's computation: None, Pending or Ready;
\*   pend   the outcome that computation resolves to;
\*   held   the extracted tuple kept while waiting (And's ex1);
\*   herr   the failure kept while waiting (Or's err1);
\*   ck     the route saved when the future was created (Or);
\*   out    the outcome the future resolved to, once Done.
\* History: calls counts filter() on the node, fcalls the calls of its
\* closure, args what the closure was last called with, start the route at
\* the moment of filter().
FutIdle ==
    [st |-> "Idle", io |-> "None", pend |-> NoOutcome, held |-> <<>>,
     herr |-> NoTerm, ck |-> Route0, out |-> NoOutcome,
     calls |-> 0, fcalls |-> 0, args |-> <<>>, start |-> Route0]

Fresh == [route |-> Route0, fut |-> [a \in Addrs |-> FutIdle]]

\* the future resolves: Async::Ready(out) or Err(out)
Finish(a, s, out) ==
    [s EXCEPT !.fut[a].st = "Done", !.fut[a].io = "None", !.fut[a].out = out]

\* slip: the closure's computation is dropped instead of being awaited
FilterFn_filter_stuck(a, n, s) ==
    [s EXCEPT !.route = FuncRoute(n.cb, s.route),
              !.fut[a].st = "Running",
              !.fut[a].io = IF n.cb.imm THEN "Ready" ELSE "None",
              !.fut[a].pend = FuncOutcome(n.cb, s.route),
              !.fut[a].fcalls = @ + 1,
              !.fut[a].args = <<T("Route", s.route.idx, <<>>)>>]

\* slip: the closure is run a second time on the route the first run left
FilterFn_filter_twice(a, n, s) ==
    [s EXCEPT !.route = FuncRoute(n.cb, FuncRoute(n.cb, s.route)),
              !.fut[a].st = "Running",
              !.fut[a].io = IF n.cb.imm THEN "Ready" ELSE "Pending",
              !.fut[a].pend = FuncOutcome(n.cb, FuncRoute(n.cb, s.route)),
              !.fut[a].fcalls = @ + 2,
              !.fut[a].args = <<T("Route", FuncRoute(n.cb, s.route).idx, <<>>)>>]

\* FilterFn::filter: route::with(|route| (self.func)(route).into_future())
FilterFn_filter(a, n, s) ==
    [s EXCEPT !.route = FuncRoute(n.cb, s.route),
              !.fut[a].st = "Running",
              !.fut[a].io = IF n.cb.imm THEN "Ready" ELSE "Pending",
              !.fut[a].pend = FuncOutcome(n.cb, s.route),
              !.fut[a].fcalls = @ + 1,
              !.fut[a].args = <<T("Route", s.route.idx, <<>>)>>]

\* filter() of the node n at address a
RECURSIVE FilterAt(_, _, _)
FilterAt(a, n, s) ==
    LET s0 == [s EXCEPT !.fut[a].calls = @ + 1, !.fut[a].start = s.route]
    IN  CASE n.kind = "FilterFn" -> FilterFn_filter(a, n, s0)
          [] n.kind = "Or" ->
                FilterAt(2 * a, n.sub[1],
                         [s0 EXCEPT !.fut[a].st = "First", !.fut[a].ck = s.route])
          [] n.kind = "Wrapped" ->
                FilterAt(2 * a, n.sub[1],
                         [s0 EXCEPT !.fut[a].st = "First",
                                    !.fut[a].fcalls = @ + 1,
                                    !.fut[a].args = <<T("Before", n.cb.id, <<>>)>>])
          [] OTHER ->
                FilterAt(2 * a, n.sub[1], [s0 EXCEPT !.fut[a].st = "First"])

\* the callback of node a is called with args and its computation awaited
CallBack(a, n, s, args, arity) ==
    [s EXCEPT !.fut[a].st = "Callback",
              !.fut[a].io = IF n.cb.imm THEN "Ready" ELSE "Pending",
              !.fut[a].pend = CallbackOutcome(n.cb, args, arity),
              !.fut[a].fcalls = @ + 1,
              !.fut[a].args = args]

\* poll of a computation that is awaited directly (leaf or callback)
PollIo(a, s, out) == IF s.fut[a].io = "Ready" THEN Finish(a, s, out) ELSE s

RECURSIVE PollAt(_, _, _)

\* slip: the leaf resolves but its computation is not given up
PollLeaf_held(a, n, s) ==
    IF s.fut[a].io = "Ready"
    THEN [s EXCEPT !.fut[a].st = "Done", !.fut[a].out = s.fut[a].pend]
    ELSE s

\* FilterFn's future is the closure's computation itself
PollLeaf(a, n, s) == PollIo(a, s, s.fut[a].pend)

\* AndFuture::poll
PollAndSecond(a, n, s) ==
    LET s2 == PollAt(2 * a + 1, n.sub[2], s)
        f2 == s2.fut[2 * a + 1]
    IN  IF f2.st # "Done" THEN s2
        ELSE IF f2.out.ok
             THEN Finish(a, s2, Ok(Combined(s2.fut[a].held, f2.out.val)))
             ELSE Finish(a, s2, Err(Unified(f2.out.err)))

PollAnd(a, n, s) ==
    IF s.fut[a].st = "Second" THEN PollAndSecond(a, n, s)
    ELSE LET s1 == PollAt(2 * a, n.sub[1], s)
             f1 == s1.fut[2 * a]
         IN  IF f1.st # "Done" THEN s1
             ELSE IF ~f1.out.ok THEN Finish(a, s1, Err(Unified(f1.out.err)))
             ELSE PollAndSecond(a, n,
                    FilterAt(2 * a + 1, n.sub[2],
                             [s1 EXCEPT !.fut[a].st = "Second",
                                        !.fut[a].held = f1.out.val]))

\* EitherFuture::poll (Or)
PollOrSecond(a, n, s) ==
    LET s2 == PollAt(2 * a + 1, n.sub[2], s)
        f2 == s2.fut[2 * a + 1]
    IN  IF f2.st # "Done" THEN s2
        ELSE IF f2.out.ok
             THEN Finish(a, s2, Ok(<<Right(f2.out.val)>>))
             ELSE Finish(a, s2, Err(CombinedRejection(s2.fut[a].herr, f2.out.err)))

PollOr(a, n, s) ==
    IF s.fut[a].st = "Second" THEN PollOrSecond(a, n, s)
    ELSE LET s1 == PollAt(2 * a, n.sub[1], s)
             f1 == s1.fut[2 * a]
         IN  IF f1.st # "Done" THEN s1
             ELSE IF f1.out.ok THEN Finish(a, s1, Ok(<<Left(f1.out.val)>>))
             ELSE PollOrSecond(a, n,
                    FilterAt(2 * a + 1, n.sub[2],
                             [s1 EXCEPT !.route = s1.fut[a].ck,
                                        !.fut[a].st = "Second",
                                        !.fut[a].herr = f1.out.err]))

\* MapFuture::poll
PollMap(a, n, s) ==
    LET s1 == PollAt(2 * a, n.sub[1], s)
        f1 == s1.fut[2 * a]
    IN  IF f1.st # "Done" THEN s1
        ELSE IF f1.out.ok
             THEN Finish(a, [s1 EXCEPT !.fut[a].fcalls = @ + 1,
                                       !.fut[a].args = f1.out.val],
                         Ok(<<App(n.cb.id, f1.out.val)>>))
             ELSE Finish(a, s1, Err(f1.out.err))

\* MapErr's future: filter().map_err(callback)
PollMapErr(a, n, s) ==
    LET s1 == PollAt(2 * a, n.sub[1], s)
        f1 == s1.fut[2 * a]
    IN  IF f1.st # "Done" THEN s1
        ELSE IF f1.out.ok
             THEN Finish(a, s1, Ok(f1.out.val))
             ELSE Finish(a, [s1 EXCEPT !.fut[a].fcalls = @ + 1,
                                       !.fut[a].args = <<f1.out.err>>],
                         Err(App(n.cb.id, <<f1.out.err>>)))

\* UnifyFuture::poll: (Either::Left(x),) => x, (Either::Right(x),) => x
PollUnify(a, n, s) ==
    LET s1 == PollAt(2 * a, n.sub[1], s)
        f1 == s1.fut[2 * a]
    IN  IF f1.st # "Done" THEN s1
        ELSE IF f1.out.ok
             THEN Finish(a, s1, Ok(f1.out.val[1].sub))
             ELSE Finish(a, s1, Err(f1.out.err))

\* AndThenFuture::poll
PollAndThenSecond(a, n, s) ==
    LET p == s.fut[a].pend
    IN  PollIo(a, s, IF p.ok THEN Ok(p.val) ELSE Err(Unified(p.err)))

PollAndThen(a, n, s) ==
    IF s.fut[a].st = "Callback" THEN PollAndThenSecond(a, n, s)
    ELSE LET s1 == PollAt(2 * a, n.sub[1], s)
             f1 == s1.fut[2 * a]
         IN  IF f1.st # "Done" THEN s1
             ELSE IF ~f1.out.ok THEN Finish(a, s1, Err(Unified(f1.out.err)))
             ELSE PollAndThenSecond(a, n, CallBack(a, n, s1, f1.out.val, 1))

\* OrElseFuture::poll
PollOrElse(a, n, s) ==
    IF s.fut[a].st = "Callback" THEN PollIo(a, s, s.fut[a].pend)
    ELSE LET s1 == PollAt(2 * a, n.sub[1], s)
             f1 == s1.fut[2 * a]
             s2 == CallBack(a, n, s1, <<f1.out.err>>, Arity(n.sub[1]))
         IN  IF f1.st # "Done" THEN s1
             ELSE IF f1.out.ok THEN Finish(a, s1, Ok(f1.out.val))
             ELSE PollIo(a, s2, s2.fut[a].pend)

\* RecoverFuture::poll
PollRecoverSecond(a, n, s) ==
    LET p == s.fut[a].pend
    IN  PollIo(a, s, IF p.ok THEN Ok(<<Right(p.val)>>) ELSE Err(p.err))

PollRecover(a, n, s) ==
    IF s.fut[a].st = "Callback" THEN PollRecoverSecond(a, n, s)
    ELSE LET s1 == PollAt(2 * a, n.sub[1], s)
             f1 == s1.fut[2 * a]
         IN  IF f1.st # "Done" THEN s1
             ELSE IF f1.out.ok THEN Finish(a, s1, Ok(<<Left(f1.out.val)>>))
             ELSE PollRecoverSecond(a, n, CallBack(a, n, s1, <<f1.out.err>>, 1))

\* the future of a wrapped filter: the wrapper's work after the inner
\* filter completes, whose outcome it hands on
PollWrapped(a, n, s) ==
    LET s1 == PollAt(2 * a, n.sub[1], s)
        f1 == s1.fut[2 * a]
    IN  IF f1.st # "Done" THEN s1
        ELSE Finish(a, [s1 EXCEPT !.fut[a].fcalls = @ + 1,
                                  !.fut[a].args = <<T("After", n.cb.id, <<>>)>>],
                    f1.out)

\* BoxedFilter's future: filter().map_err(Rejection::from), boxed
PollBoxed(a, n, s) ==
    LET s1 == PollAt(2 * a, n.sub[1], s)
        f1 == s1.fut[2 * a]
    IN  IF f1.st # "Done" THEN s1
        ELSE IF f1.out.ok
             THEN Finish(a, s1, Ok(f1.out.val))
             ELSE Finish(a, s1, Err(Rejection_from(f1.out.err)))

\* Future::poll of the future of node n at address a
PollAt(a, n, s) ==
    CASE n.kind = "FilterFn" -> PollLeaf(a, n, s)
      [] n.kind = "And" -> PollAnd(a, n, s)
      [] n.kind = "Or" -> PollOr(a, n, s)
      [] n.kind = "Map" -> PollMap(a, n, s)
      [] n.kind = "MapErr" -> PollMapErr(a, n, s)
      [] n.kind = "Unify" -> PollUnify(a, n, s)
      [] n.kind = "AndThen" -> PollAndThen(a, n, s)
      [] n.kind = "OrElse" -> PollOrElse(a, n, s)
      [] n.kind = "Recover" -> PollRecover(a, n, s)
      [] n.kind = "Wrapped" -> PollWrapped(a, n, s)
      [] n.kind = "Boxed" -> PollBoxed(a, n, s)

\* every computation that is pending completes
CompleteAll(s) ==
    [s EXCEPT !.fut = [a \in Addrs |->
        IF s.fut[a].io = "Pending" THEN [s.fut[a] EXCEPT !.io = "Ready"]
        ELSE s.fut[a]]]

\* the future of root polled to completion, in at most k rounds
RECURSIVE Drive(_, _, _)
Drive(root, s, k) ==
    IF s.fut[1].st = "Done" \/ k = 0 THEN s
    ELSE Drive(root, PollAt(1, root, CompleteAll(s)), k - 1)

\* filter n evaluated on its own from route: the final route and futures
Alone(n, route) ==
    Drive(n, FilterAt(1, n, [Fresh EXCEPT !.route = route]), Cardinality(Addrs))

\* ---------------------------------------------------------------- pipelines
Kinds == {"NoMatch", "Invalid"}

\* the segments a leaf may ask for: 0 is any, 1 and 2 the first two
Wants == 0..2

\* the closures a leaf with identity id may wrap, extracting a tuple of an
\* arity in ars and failing with a kind in eks
LeafFns(id, ars, eks) ==
    {f \in {Fn(id, w, adv, ar, ek, imm, TRUE) :
                w \in Wants, adv \in BOOLEAN, ar \in ars, ek \in eks,
                imm \in BOOLEAN} :
        f.want = 0 => f.ekind = "NoMatch"}

\* the closures used for the leaves inside a composite operand: a wildcard
\* extracting nothing or a matcher extracting the segment
InnerFns(id) ==
    {f \in LeafFns(id, 0..1, {"NoMatch"}) :
        f.imm /\ (f.arity = 0 <=> f.want = 0)}

\* the functions given to filter_fn_one: they return the segment they ask for
OneFns(id) == {f \in LeafFns(id, {1}, {"NoMatch"}) : f.want # 0 /\ ~f.adv}

\* the callbacks with identity id
Callbacks(id) ==
    {Fn(id, 0, FALSE, 1, "Invalid", imm, ok) : imm \in BOOLEAN, ok \in BOOLEAN}

FunIds == 11..(10 + NumFun)

\* Alternatives are told apart by their failures, conjunctions and
\* callbacks by the tuples they extract.
ArsFor(op) == IF op \in {"or", "unify"} THEN {1} ELSE 0..MaxArity

EksFor(op) == IF op \in {"or", "unify"} THEN Kinds ELSE {"NoMatch"}

\* the filters `self` ranges over: a leaf, or an and / or of two leaves
Selves(op) ==
    {filter_fn(f) : f \in LeafFns(1, ArsFor(op), EksFor(op))}
    \cup {filter_fn_one(f) : f \in OneFns(1)}
    \cup {and(filter_fn(f), filter_fn(g)) : f \in InnerFns(1), g \in InnerFns(2)}
    \cup {or(filter_fn(f), filter_fn(g)) : f \in InnerFns(1), g \in InnerFns(2)}

\* the filters `other` ranges over
Others(op) == {filter_fn(f) : f \in LeafFns(3, ArsFor(op), EksFor(op))}

Ops ==
    {"and", "or", "unify", "map", "and_then", "or_else", "recover", "map_err",
     "with", "boxed"}

Binary == {"and", "or", "unify"}

\* the pipeline the program assembles: self.op(other) or self.op(fun)
Build(op, self, other, fun) ==
    CASE op = "and" -> and(self, other)
      [] op = "or" -> or(self, other)
      [] op = "unify" -> unify(or(self, other))
      [] op = "map" -> map(self, fun)
      [] op = "and_then" -> and_then(self, fun)
      [] op = "or_else" -> or_else(self, fun)
      [] op = "recover" -> recover(self, fun)
      [] op = "map_err" -> map_err(self, fun)
      [] op = "with" -> with(self, fun)
      [] op = "boxed" -> boxed(self)

Pipeline(op, self, other, fun) ==
    [op |-> op, self |-> self, other |-> other, fun |-> fun,
     root |-> Build(op, self, other, fun)]

\* the operands an operation is applied to besides self; unify needs both
\* alternatives to extract the same type
OthersFor(op, self) ==
    CASE op \in {"and", "or"} -> Others(op)
      [] op = "unify" ->
            {o \in Others(op) : self.kind # "Or" /\ Arity(o) = Arity(self)}
      [] OTHER -> {filter_fn(NoFn)}

\* the wrappers with identity id
Wrappers(id) == {Fn(id, 0, FALSE, 0, "NoMatch", TRUE, TRUE)}

FunsFor(op) ==
    CASE op \in Binary \cup {"boxed"} -> {NoFn}
      [] op = "with" -> UNION {Wrappers(id) : id \in FunIds}
      [] OTHER -> UNION {Callbacks(id) : id \in FunIds}

\* ------------------------------------------------------------------- state
VARIABLES
    pipeline,   \* the assembled pipeline and the operands it was built from
    active,     \* the requests being served
    inv         \* per request: its route and the futures of its evaluation

vars == <<pipeline, active, inv>>

Init ==
    /\ \E op \in Ops : \E self \in Selves(op) :
         \E other \in OthersFor(op, self), fun \in FunsFor(op) :
            pipeline = Pipeline(op, self, other, fun)
    /\ active = {1}
    /\ inv = [r \in Req |-> Fresh]

\* slip: the invocation works on the route of the other invocation
Filter_shared(r) ==
    /\ inv[r].fut[1].st = "Idle"
    /\ inv' = [inv EXCEPT ![r] =
                  FilterAt(1, pipeline.root,
                           [inv[r] EXCEPT !.route = inv[3 - r].route])]
    /\ UNCHANGED <<pipeline, active>>

\* the server calls filter() on the root for request r
Filter(r) ==
    /\ inv[r].fut[1].st = "Idle"
    /\ inv' = [inv EXCEPT ![r] = FilterAt(1, pipeline.root, inv[r])]
    /\ UNCHANGED <<pipeline, active>>

\* the computation a leaf or a callback returned completes
Complete(r, a) ==
    /\ inv[r].fut[a].io = "Pending"
    /\ inv' = [inv EXCEPT ![r].fut[a].io = "Ready"]
    /\ UNCHANGED <<pipeline, active>>

\* the executor polls the root future of request r
Poll(r) ==
    /\ inv[r].fut[1].st \notin {"Idle", "Done"}
    /\ inv' = [inv EXCEPT ![r] = PollAt(1, pipeline.root, inv[r])]
    /\ UNCHANGED <<pipeline, active>>

Next ==
    \E r \in active :
        \/ Filter(r)
        \/ Poll(r)
        \/ \E a \in Addrs : Complete(r, a)

Spec == Init /\ [][Next]_vars

\* Fair scheduling of one request: the server calls filter(), the executor
\* polls a future that can move, and every inner computation completes.
\* The trees are those with at most one two-branch combinator on a path;
\* over a two-branch operand, whose leaves move the cursor, one callback
\* identity is enough.
InitFair ==
    /\ Init
    /\ pipeline.op \in Binary => pipeline.self.kind = "FilterFn"
    /\ pipeline.self.kind # "FilterFn" =>
          /\ pipeline.fun \in {NoFn} \cup Callbacks(11) \cup Wrappers(11)
          /\ \A i \in 1..2 : pipeline.self.sub[i].cb.adv

SpecFair ==
    /\ InitFair
    /\ [][Next]_vars
    /\ WF_vars(Filter(1))
    /\ WF_vars(Poll(1))
    /\ WF_vars(\E a \in Addrs : Complete(1, a))

\* Two requests served side by side by the same pipeline, whose leaves move
\* the path cursor.
ConcFns(id) ==
    {f \in LeafFns(id, {1}, {"NoMatch"}) : f.adv}

ConcOps == {"and", "or", "and_then", "or_else"}

InitConc ==
    /\ \E op \in ConcOps, f \in ConcFns(1) :
         \E other \in IF op \in Binary
                       THEN {filter_fn(g) : g \in ConcFns(3)}
                       ELSE {filter_fn(NoFn)},
            fun \in FunsFor(op) :
            pipeline = Pipeline(op, filter_fn(f), other, fun)
    /\ active = Req
    /\ inv = [r \in Req |-> Fresh]

SpecConc == InitConc /\ [][Next]_vars

\* ------------------------------------------------------------ observations
\* the address of filter x in the assembled pipeline (0 when it is not there)
AddrOf(x) ==
    LET as == {a \in Addrs : HasNode(pipeline.root, a) /\ NodeAt(pipeline.root, a) = x}
    IN  IF as = {} THEN 0 ELSE CHOOSE a \in as : \A b \in as : a <= b

\* the future of filter x in the evaluation of request r
FutOf(r, x) == IF AddrOf(x) = 0 THEN FutIdle ELSE inv[r].fut[AddrOf(x)]

RootFut(r) == inv[r].fut[1]

\* b is a or lies below a
RECURSIVE Below(_, _)
Below(a, b) == b >= a /\ (b = a \/ (b > 1 /\ Below(a, b \div 2)))

\* no node of filter x has had filter() called, nor its closure run
Untouched(r, x) ==
    /\ AddrOf(x) # 0
    /\ \A b \in Addrs : Below(AddrOf(x), b) =>
          /\ inv[r].fut[b].calls = 0
          /\ inv[r].fut[b].fcalls = 0
          /\ inv[r].fut[b].st = "Idle"

Failed(f) == f.st = "Done" /\ ~f.out.ok
Succeeded(f) == f.st = "Done" /\ f.out.ok

\* ------------------------------------------------------------------ claims

\* C1: when A fails, A.and(B) never calls B's filter() and fails with the
\* unified form of A's failure.
C1_AndShortCircuit ==
    \A r \in active :
        (pipeline.op = "and" /\ Failed(FutOf(r, pipeline.self))) =>
            /\ Untouched(r, pipeline.other)
            /\ RootFut(r).st = "Done"
            /\ RootFut(r).out = Err(Unified(FutOf(r, pipeline.self).out.err))

C1_Witness ==
    /\ pipeline.op = "and"
    /\ Failed(FutOf(1, pipeline.self))
    /\ FutOf(1, pipeline.self).out.err.tag # "Rejection"
    /\ Accepts(pipeline.other.cb, inv[1].route)
    /\ RootFut(1).st = "Done"

\* C2: when A and B both succeed, A.and(B) succeeds with A's elements
\* followed by B's, arity m+n; a unit side contributes nothing.
C2_AndArity ==
    \A r \in active :
        (/\ pipeline.op = "and"
         /\ Succeeded(FutOf(r, pipeline.self))
         /\ Succeeded(FutOf(r, pipeline.other))) =>
            /\ Succeeded(RootFut(r))
            /\ RootFut(r).out.val =
                 FutOf(r, pipeline.self).out.val \o FutOf(r, pipeline.other).out.val
            /\ Len(RootFut(r).out.val) = Arity(pipeline.self) + Arity(pipeline.other)

\* unit.and((v,)) extracts (v,)
C2_Witness ==
    /\ pipeline.op = "and"
    /\ Arity(pipeline.self) = 0
    /\ Arity(pipeline.other) = 1
    /\ Succeeded(RootFut(1))
    /\ RootFut(1).out.val = FutOf(1, pipeline.other).out.val
    /\ Len(RootFut(1).out.val) = 1

\* C3: when A fails, A.or(B) evaluates B on the route as it was before A,
\* and if B succeeds the result is Either::Right of what B alone yields
\* from the original route.
C3_OrReset ==
    \A r \in active :
        (pipeline.op = "or" /\ Failed(FutOf(r, pipeline.self))) =>
            /\ FutOf(r, pipeline.other).calls = 1
            /\ FutOf(r, pipeline.other).start = RootFut(r).start
            /\ FutOf(r, pipeline.other).args = <<T("Route", RootFut(r).start.idx, <<>>)>>
            /\ FuncOutcome(pipeline.other.cb, RootFut(r).start).ok =>
                  /\ FutOf(r, pipeline.other).pend =
                        FuncOutcome(pipeline.other.cb, RootFut(r).start)
                  /\ RootFut(r).st = "Done" =>
                        RootFut(r).out =
                           Ok(<<Right(FuncOutcome(pipeline.other.cb, RootFut(r).start).val)>>)

\* A moved the cursor and failed; B succeeds although it would not have
\* from where A left the cursor
C3_Witness ==
    /\ pipeline.op = "or"
    /\ Failed(FutOf(1, pipeline.self))
    /\ \E a \in Addrs : Below(AddrOf(pipeline.self), a)
                        /\ inv[1].fut[a].fcalls = 1
                        /\ NodeAt(pipeline.root, a).cb.adv
                        /\ inv[1].fut[a].start.idx < PathLen
    /\ ~Accepts(pipeline.other.cb, [idx |-> 1])
    /\ Succeeded(RootFut(1))
    /\ RootFut(1).out.val[1].tag = "Right"

\* C4: when A succeeds with x, A.or(B) succeeds with Either::Left(x) and B
\* is never evaluated.
C4_OrLeft ==
    \A r \in active :
        (pipeline.op = "or" /\ Succeeded(FutOf(r, pipeline.self))) =>
            /\ RootFut(r).st = "Done"
            /\ RootFut(r).out = Ok(<<Left(FutOf(r, pipeline.self).out.val)>>)
            /\ Untouched(r, pipeline.other)

C4_Witness ==
    /\ pipeline.op = "or"
    /\ Succeeded(FutOf(1, pipeline.self))
    /\ Succeeded(RootFut(1))
    /\ Accepts(pipeline.other.cb, Route0)

\* C5: A.map(f) fails exactly when A fails, with the same failure; when A
\* succeeds with t it succeeds with (f(t),).  Map never fails on its own.
C5_MapPurity ==
    \A r \in active :
        pipeline.op = "map" =>
            LET A == FutOf(r, pipeline.self)
            IN  /\ Failed(RootFut(r)) <=> Failed(A)
                /\ Succeeded(RootFut(r)) <=> Succeeded(A)
                /\ Failed(A) => RootFut(r).out = Err(A.out.err)
                /\ Succeeded(A) =>
                      RootFut(r).out = Ok(<<App(pipeline.fun.id, A.out.val)>>)

C5_Witness ==
    /\ pipeline.op = "map"
    /\ Succeeded(FutOf(1, pipeline.self))
    /\ Len(FutOf(1, pipeline.self).out.val) = 2
    /\ Succeeded(RootFut(1))
    /\ Len(RootFut(1).out.val) = 1

\* C6: when the computation f returns never fails, A.recover(f) never
\* fails: a failure of A becomes a success carrying f's result.
C6_RecoverTotal ==
    \A r \in active :
        (pipeline.op = "recover" /\ pipeline.fun.ok) =>
            LET A == FutOf(r, pipeline.self)
            IN  /\ ~Failed(RootFut(r))
                /\ (Failed(A) /\ RootFut(r).st = "Done") =>
                      RootFut(r).out =
                         Ok(<<Right(CallbackOutcome(pipeline.fun, <<A.out.err>>, 1).val)>>)

C6_Witness ==
    /\ pipeline.op = "recover"
    /\ pipeline.fun.ok
    /\ Failed(FutOf(1, pipeline.self))
    /\ Succeeded(RootFut(1))

\* C7: F.unify() succeeds with the inner value of F's Either, whichever
\* tag it has, and fails exactly when F fails; A.or(B).unify() yields the
\* value of the branch that succeeded.
C7_Unify ==
    \A r \in active :
        pipeline.op = "unify" =>
            LET F == FutOf(r, or(pipeline.self, pipeline.other))
                A == FutOf(r, pipeline.self)
                B == FutOf(r, pipeline.other)
            IN  /\ Failed(RootFut(r)) <=> Failed(F)
                /\ Succeeded(F) =>
                      /\ F.out.val[1].tag \in {"Left", "Right"}
                      /\ RootFut(r).out = Ok(F.out.val[1].sub)
                /\ Succeeded(A) => RootFut(r).out = Ok(A.out.val)
                /\ Succeeded(B) => RootFut(r).out = Ok(B.out.val)

\* only the second branch matches, and its value is what unify yields
C7_Witness ==
    /\ pipeline.op = "unify"
    /\ Failed(FutOf(1, pipeline.self))
    /\ Succeeded(FutOf(1, pipeline.other))
    /\ FutOf(1, or(pipeline.self, pipeline.other)).out.val[1].tag = "Right"
    /\ Succeeded(RootFut(1))
    /\ RootFut(1).out.val = FutOf(1, pipeline.other).out.val

\* C8: if A fails, A.and_then(f) fails with A's unified failure and f is
\* never called; if A succeeds with t, f is called once with t and the
\* outcome is that of the computation f returned (its failure unified).
C8_AndThen ==
    \A r \in active :
        pipeline.op = "and_then" =>
            LET A == FutOf(r, pipeline.self)
                c == CallbackOutcome(pipeline.fun, A.out.val, 1)
            IN  /\ Failed(A) =>
                      /\ RootFut(r).st = "Done"
                      /\ RootFut(r).out = Err(Unified(A.out.err))
                      /\ RootFut(r).fcalls = 0
                /\ Succeeded(A) =>
                      /\ RootFut(r).fcalls = 1
                      /\ RootFut(r).args = A.out.val
                      /\ RootFut(r).st = "Done" =>
                            RootFut(r).out =
                               IF c.ok THEN Ok(c.val) ELSE Err(Unified(c.err))
                /\ RootFut(r).st = "Done" => A.st = "Done"

C8_Witness ==
    /\ pipeline.op = "and_then"
    /\ Succeeded(FutOf(1, pipeline.self))
    /\ ~pipeline.fun.ok
    /\ Failed(RootFut(1))
    /\ RootFut(1).out.err.tag = "Rejection"

\* C9: if A succeeds, A.or_else(f) succeeds with A's value and f is never
\* called; if A fails with e, f is called with e and the outcome is exactly
\* that of the computation f returned.
C9_OrElse ==
    \A r \in active :
        pipeline.op = "or_else" =>
            LET A == FutOf(r, pipeline.self)
            IN  /\ Succeeded(A) =>
                      /\ RootFut(r).st = "Done"
                      /\ RootFut(r).out = Ok(A.out.val)
                      /\ RootFut(r).fcalls = 0
                /\ Failed(A) =>
                      /\ RootFut(r).fcalls = 1
                      /\ RootFut(r).args = <<A.out.err>>
                      /\ RootFut(r).st = "Done" =>
                            RootFut(r).out =
                               CallbackOutcome(pipeline.fun, <<A.out.err>>,
                                               Arity(pipeline.self))
                /\ RootFut(r).st = "Done" => A.st = "Done"

C9_Witness ==
    /\ pipeline.op = "or_else"
    /\ Failed(FutOf(1, pipeline.self))
    /\ ~pipeline.fun.ok
    /\ ~pipeline.fun.imm
    /\ Failed(RootFut(1))
    /\ RootFut(1).out.err.tag # "Rejection"

\* C10: A.map_err(g) succeeds exactly when A succeeds, with A's value and
\* without applying g; when A fails with e it fails with g(e).
C10_MapErr ==
    \A r \in active :
        pipeline.op = "map_err" =>
            LET A == FutOf(r, pipeline.self)
            IN  /\ Succeeded(RootFut(r)) <=> Succeeded(A)
                /\ Failed(RootFut(r)) <=> Failed(A)
                /\ Succeeded(A) =>
                      /\ RootFut(r).out = Ok(A.out.val)
                      /\ RootFut(r).fcalls = 0
                /\ Failed(A) =>
                      RootFut(r).out = Err(App(pipeline.fun.id, <<A.out.err>>))

C10_Witness ==
    /\ pipeline.op = "map_err"
    /\ Failed(FutOf(1, pipeline.self))
    /\ Failed(RootFut(1))
    /\ RootFut(1).out.err.tag = "App"
    /\ RootFut(1).fcalls = 1

C12_Boxed ==
    \A r \in active :
        pipeline.op = "boxed" =>
            LET F == FutOf(r, pipeline.self)
            IN  /\ Succeeded(RootFut(r)) <=> Succeeded(F)
                /\ Failed(RootFut(r)) <=> Failed(F)
                /\ Succeeded(F) => RootFut(r).out = Ok(F.out.val)
                /\ Failed(F) =>
                      /\ RootFut(r).out = Err(Rejection_from(F.out.err))
                      /\ RootFut(r).out.err.tag = "Rejection"
                      /\ \A i \in 0..PathLen :
                            LET o == Alone(pipeline.self, [idx |-> i]).fut[1].out
                            IN  (~o.ok /\ o.err # F.out.err) =>
                                    Rejection_from(o.err) # RootFut(r).out.err

\* F fails with a failure that is not yet a Rejection, and could have
\* failed differently on another route
C12_Witness ==
    /\ pipeline.op = "boxed"
    /\ Failed(FutOf(1, pipeline.self))
    /\ FutOf(1, pipeline.self).out.err.tag # "Rejection"
    /\ Failed(RootFut(1))
    /\ \E i \in 0..PathLen :
          LET o == Alone(pipeline.self, [idx |-> i]).fut[1].out
          IN  ~o.ok /\ o.err # FutOf(1, pipeline.self).out.err

\* C13: the node is never changed by an invocation, and whatever the
\* interleaving of two invocations, each resolves to the outcome, and leaves
\* its route where, the pipeline evaluated on its own does.
C13_Stateless ==
    [][/\ pipeline' = pipeline
       /\ \A r \in active :
            RootFut(r)'.st = "Done" =>
               /\ RootFut(r)'.out = Alone(pipeline.root, Route0).fut[1].out
               /\ inv'[r].route = Alone(pipeline.root, Route0).route]_vars

\* the second invocation has resolved while the first, which moved its
\* cursor, is still waiting
C13_Witness ==
    /\ active = Req
    /\ RootFut(2).st = "Done"
    /\ RootFut(1).st \notin {"Idle", "Done"}
    /\ inv[1].route # Route0
    /\ \E a \in Addrs : inv[1].fut[a].io = "Pending"

\* a computation that has begun and has not resolved
InProgress(f) == f.st \notin {"Idle", "Done"}

\* C14: A.and(B) goes WaitingOnA -> WaitingOnB -> Done, or WaitingOnA -> Done
\* on A's failure; B begins only after A resolved to success, and A and B
\* are never both pending.  (A poll that finds B ready at once passes through
\* WaitingOnB inside the step: B has been called by then.)
C14_AndSequential ==
    [][\A r \in active : pipeline.op = "and" =>
         LET R0 == RootFut(r)
             R1 == RootFut(r)'
             A1 == FutOf(r, pipeline.self)'
             B1 == FutOf(r, pipeline.other)'
         IN  /\ <<R0.st, R1.st>> \in
                  {<<"Idle", "Idle">>, <<"Idle", "First">>,
                   <<"First", "First">>, <<"First", "Second">>,
                   <<"First", "Done">>, <<"Second", "Second">>,
                   <<"Second", "Done">>, <<"Done", "Done">>}
             /\ (R0.st = "First" /\ R1.st = "Done") =>
                   \/ Failed(A1) /\ B1.calls = 0
                   \/ Succeeded(A1) /\ B1.calls = 1 /\ B1.st = "Done"
             /\ R1.st = "First" <=> InProgress(A1)
             /\ R1.st = "Second" <=> InProgress(B1)
             /\ B1.calls > 0 => Succeeded(A1)
             /\ ~(InProgress(A1) /\ InProgress(B1))]_vars

\* A has succeeded and the And is waiting on B, whose computation is pending
C14_Witness ==
    /\ pipeline.op = "and"
    /\ RootFut(1).st = "Second"
    /\ Succeeded(FutOf(1, pipeline.self))
    /\ FutOf(1, pipeline.other).io = "Pending"

\* C15: in A.and(B), B is evaluated on the route as A left it: B starts from
\* the route that A's evaluation produces from the route And was given, with
\* no reset in between, and B's closure reads that route.
C15_AndSharesRoute ==
    \A r \in active :
        (pipeline.op = "and" /\ Succeeded(FutOf(r, pipeline.self))) =>
            LET B == FutOf(r, pipeline.other)
                left == Alone(pipeline.self, RootFut(r).start).route
            IN  /\ B.calls = 1
                /\ B.start = left
                /\ pipeline.other.kind = "FilterFn" =>
                      /\ B.args = <<T("Route", left.idx, <<>>)>>
                      /\ B.pend = FuncOutcome(pipeline.other.cb, left)

\* A moved the cursor and B, started from the moved cursor, accepted a
\* segment it would not have found at the start of the path
C15_Witness ==
    /\ pipeline.op = "and"
    /\ Succeeded(FutOf(1, pipeline.self))
    /\ FutOf(1, pipeline.other).start # RootFut(1).start
    /\ Succeeded(FutOf(1, pipeline.other))
    /\ ~Accepts(pipeline.other.cb, RootFut(1).start)

\* C16: in A.or(B), B begins only after A has resolved to a failure, and
\* A and B are never both pending.
C16_OrSequential ==
    [][\A r \in active : pipeline.op = "or" =>
         LET R1 == RootFut(r)'
             A1 == FutOf(r, pipeline.self)'
             B1 == FutOf(r, pipeline.other)'
         IN  /\ B1.calls > 0 => Failed(A1)
             /\ InProgress(B1) => (R1.st = "Second" /\ Failed(A1))
             /\ InProgress(A1) => (R1.st = "First" /\ B1.calls = 0)
             /\ ~(InProgress(A1) /\ InProgress(B1))
             /\ (R1.st = "Done" /\ B1.calls = 0) => Succeeded(A1)]_vars

\* A has failed and the Or is waiting on B, whose computation is pending
C16_Witness ==
    /\ pipeline.op = "or"
    /\ RootFut(1).st = "Second"
    /\ Failed(FutOf(1, pipeline.self))
    /\ FutOf(1, pipeline.other).io = "Pending"

\* C17: when A and B both fail, A.or(B) fails with one canonical rejection
\* that keeps both attempts, A's then B's; when one of the two is a concrete
\* validation problem and the other only a missing match, the validation
\* problem is the one surfaced, whichever side it came from.
C17_OrTieBreak ==
    \A r \in active :
        LET A == FutOf(r, pipeline.self)
            B == FutOf(r, pipeline.other)
        IN  (pipeline.op = "or" /\ Failed(A) /\ Failed(B)) =>
               /\ Failed(RootFut(r))
               /\ RootFut(r).out.err.tag = "Rejection"
               /\ RootFut(r).out.err.sub =
                     <<Unified(A.out.err), Unified(B.out.err)>>
               /\ Specificity(A.out.err) > Specificity(B.out.err) =>
                     Surfaced(RootFut(r).out.err) = Surfaced(A.out.err)
               /\ Specificity(B.out.err) > Specificity(A.out.err) =>
                     Surfaced(RootFut(r).out.err) = Surfaced(B.out.err)
               /\ Specificity(A.out.err) # Specificity(B.out.err) =>
                     Surfaced(RootFut(r).out.err).tag = "Invalid"

\* the first attempt found a validation problem, the second no match: the
\* first attempt's failure is surfaced although it is the earlier one
C17_Witness ==
    /\ pipeline.op = "or"
    /\ Failed(FutOf(1, pipeline.self))
    /\ Failed(FutOf(1, pipeline.other))
    /\ Surfaced(FutOf(1, pipeline.self).out.err).tag = "Invalid"
    /\ Surfaced(FutOf(1, pipeline.other).out.err).tag = "NoMatch"
    /\ Surfaced(RootFut(1).out.err) = Surfaced(FutOf(1, pipeline.self).out.err)

\* the validation problem came from the second attempt
C17_WitnessSecond ==
    /\ pipeline.op = "or"
    /\ Failed(FutOf(1, pipeline.self))
    /\ Failed(FutOf(1, pipeline.other))
    /\ Surfaced(FutOf(1, pipeline.self).out.err).tag = "NoMatch"
    /\ Surfaced(FutOf(1, pipeline.other).out.err).tag = "Invalid"
    /\ Surfaced(RootFut(1).out.err) = Surfaced(FutOf(1, pipeline.other).out.err)

\* the inner computations of request r that are in progress: closures'
\* and callbacks' computations that were started and not yet consumed
Computing(r) == {a \in Addrs : inv[r].fut[a].io # "None"}

\* the leaves of request r that have the route: called and not resolved
Holders(r) ==
    {a \in Addrs : /\ HasNode(pipeline.root, a)
                   /\ NodeAt(pipeline.root, a).kind = "FilterFn"
                   /\ InProgress(inv[r].fut[a])}

C19_Progress ==
    /\ [][/\ InProgress(RootFut(1)') => Computing(1)' # {}
          /\ (Poll(1) /\ InProgress(RootFut(1)')) =>
                \E a \in Addrs : inv'[1].fut[a].io = "Pending"
          /\ RootFut(1)'.st # "Done" => RootFut(1)'.out = NoOutcome
          /\ RootFut(1)'.st = "Done" => RootFut(1)'.out # NoOutcome
          /\ RootFut(1).st = "Done" =>
                /\ RootFut(1)'.st = "Done"
                /\ RootFut(1)'.out = RootFut(1).out]_vars
    /\ <>[](RootFut(1).st = "Done")

\* the evaluation has finished after having been suspended on a leaf and
\* then on the computation of a callback
C19_Witness ==
    /\ RootFut(1).st = "Done"
    /\ RootFut(1).fcalls = 1
    /\ ~pipeline.fun.imm
    /\ pipeline.self.kind = "FilterFn"
    /\ ~pipeline.self.cb.imm

\* the leaves of the pipeline
Leaves ==
    {a \in Addrs : HasNode(pipeline.root, a)
                   /\ NodeAt(pipeline.root, a).kind = "FilterFn"}

\* C20: every filter() of a leaf runs its function exactly once, on the
\* route of the request as it is at that moment, and the leaf resolves to
\* the outcome of that run, unmodified; a leaf of filter_fn_one resolves to
\* the one-element tuple of the item on success and to the function's own
\* failure otherwise.
C20_Leaf ==
    \A r \in active : \A a \in Leaves :
        LET func == NodeAt(pipeline.root, a).cb
            f == inv[r].fut[a]
            item == T("V", 100 * func.id + 10 * f.start.idx + 1, <<>>)
        IN  /\ f.fcalls = f.calls
            /\ f.calls > 0 =>
                  /\ f.args = <<T("Route", f.start.idx, <<>>)>>
                  /\ f.pend = FuncOutcome(func, f.start)
                  /\ f.st = "Done" => f.out = f.pend
                  /\ func.then = "tup_one" =>
                        /\ Accepts(func, f.start) =>
                              (f.pend.ok /\ f.pend.val = <<item>>)
                        /\ ~Accepts(func, f.start) =>
                              f.pend = Err(T(func.ekind,
                                             100 * func.id + 10 * f.start.idx, <<>>))

\* a leaf of filter_fn_one whose computation was pending has resolved to
\* the one-element tuple of its item
C20_Witness ==
    /\ pipeline.self.kind = "FilterFn"
    /\ pipeline.self.cb.then = "tup_one"
    /\ ~pipeline.self.cb.imm
    /\ Succeeded(FutOf(1, pipeline.self))
    /\ FutOf(1, pipeline.self).fcalls = 1
    /\ FutOf(1, pipeline.self).out.val =
          <<T("V", 100 * pipeline.self.cb.id + 1, <<>>)>>

====
